---- MODULE Spec2Model ----
(***************************************************************************)
(* NatsBufferedClient (src/src/node-nats-streaming-buffered-client.ts,     *)
(* lines 1-400): a publish-side client that buffers items in a CBuffer     *)
(* ring buffer and drains them to a node-nats-streaming session (stan).    *)
(*                                                                         *)
(* Items are identified by the order in which publish accepted them        *)
(* (1, 2, 3, ...).  Sessions are identified by the order in which          *)
(* nats.connect created them; 0 stands for `undefined`.                    *)
(*                                                                         *)
(* The session is an external collaborator.  Its events ('connect',        *)
(* 'error', 'disconnect') and its publish acknowledgment callbacks are     *)
(* steps of the environment.  Promise continuations are microtasks: while  *)
(* one is queued no environment event is delivered, only code of the same  *)
(* turn.                                                                   *)
(*                                                                         *)
(* Two earlier revisions of the client are modelled at the end of the      *)
(* module, each with its own next-state relation: the retry-counter        *)
(* revision (src/unnamed/part_000, SpecRetry) and the reconnect-timer      *)
(* revision (src/unnamed/part_001, SpecTimer).                             *)
(***************************************************************************)
EXTENDS Integers, Sequences, FiniteSets, TLC

(* ------------------------------ bounds --------------------------------- *)

\* capacity of the ring buffer (constructor argument bufferSize)
BufferSize == 2

\* number of items publish may accept in one behaviour
MaxPub == 3

\* number of sessions nats.connect may create in one behaviour
MaxSessions == 2

\* number of publish attempts the session may fail in one behaviour
MaxFail == 1

\* the limits for the behaviours that exercise the session lifecycle
\* (SpecLifecycle): more sessions, fewer items, and the number of sessions
\* that may be lost before they signal 'connect'
LifePub == 1
LifeSessions == 3
LifeLost == 1

\* the limits for the behaviours checked for progress (SpecFair)
FairPub == 1
FairSessions == 2

\* the limits for the behaviours of the retry-counter revision (SpecRetry):
\* enough failures to pass its threshold while a second loop still retries
RetryPub == 1
RetrySessions == 3
RetryFail == 12

\* the limits for the behaviours of the reconnect-timer revision (SpecTimer)
TimerPub == 2
TimerSessions == 3

\* the limits for the behaviours of the retry-counter revision that overflow
\* its buffer (SpecRetryOverflow)
OverflowPub == 3
OverflowSessions == 2

\* the limits for the behaviours of the current client in which two attempts
\* fail (SpecOrder)
OrderPub == 2
OrderFail == 2

(* ------------------------------- state --------------------------------- *)

VARIABLES
  buffer,                    \* this.buffer: the items held, head first
  stan,                      \* this.stan: current session, 0 = undefined
  ticking,                   \* this.ticking
  initialConnected,          \* this.initialConnected
  waitForInitialConnection,  \* constructor parameter, fixed per instance
  stored,                    \* this.clusterId, this.clientId, this.clientOptions
  sess,                      \* per session: none / connecting / connected /
                             \*   failed / closed
  opened,                    \* the arguments the latest nats.connect received
  by,                        \* the method awaiting the latest connect()
                             \*   promise, none once that promise has settled
  promise,                   \* per session: the promise of its connect() call,
                             \*   none once the session is closed or replaced
  inflight,                  \* stan.publish calls awaiting their callback
  waiter,                    \* per session: who listens for its 'disconnect'
  micro,                     \* reconnect() continuations whose disconnect()
                             \*   promise is already resolved (queued microtasks)
  called,                    \* the arguments of the latest connect() call made
                             \*   by the user
  published,                 \* number of items accepted by publish
  attempts,                  \* per item: stan.publish calls made for it
  acked,                     \* items whose callback reported success
  overflowed,                \* items passed to the overflow hook, in order
  failed,                    \* per item: callbacks that reported an error
  ret,                       \* result of the publish call made by this step,
                             \*   or of its disconnect() call when close() threw
  lost,                      \* number of sessions lost before 'connect'
  limit,                     \* the limits of this behaviour, fixed by Init
  emitted,                   \* the signals the client has emitted, in order
  publishFailCount,          \* part_000: this.publishFailCount
  connected,                 \* part_000: this.connected,
                             \*   part_001: this.clientConnected
  timers,                    \* part_000: delays of the pending setTimeout
                             \*   retries, in the order they were scheduled
  pending,                   \* part_000: stan.publish calls awaiting their
                             \*   callback
  reconnectTimer             \* part_001: this.reconnectTimer is armed

vars == <<buffer, stan, ticking, initialConnected, waitForInitialConnection,
          stored, sess, opened, by, promise, inflight, waiter, micro, called,
          published, attempts, acked, overflowed, failed, ret, lost,
          limit, emitted, publishFailCount, connected, timers, pending,
          reconnectTimer>>

\* the fields of the earlier revisions (src/unnamed/part_000 and part_001),
\* which the current client does not have
revision == <<publishFailCount, connected, timers, pending, reconnectTimer>>

Max(a, b) == IF a > b THEN a ELSE b

Items    == 1..MaxPub
Sessions ==
  1..Max(Max(Max(MaxSessions, LifeSessions), FairSessions),
         Max(RetrySessions, TimerSessions))
None     == "none"

\* results of a publish call; NoCall when the step is not a publish call
NoCall      == [kind |-> "none",   value |-> 0]
Threw       == [kind |-> "error",  value |-> 0]
Returned(n) == [kind |-> "length", value |-> n]

\* the result of a disconnect() call whose stan.close() threw
CloseThrew  == [kind |-> "close",  value |-> 0]

\* the promise a disconnect() call returned, as that call leaves it
Resolved == "resolved"
Rejected == "rejected"
Pending  == "pending"

(* ------------------------------ options -------------------------------- *)
\* Options objects are functions from the keys they own to values.

\* connect(): `const defaultOptions = { ... }`
defaultOptions ==
  [maxReconnectAttempts |-> -1, reconnect |-> TRUE, waitOnFirstConnect |-> TRUE]

\* an assign that lets the target win over the source
ObjectAssignTargetWins(target, source) ==
  [k \in (DOMAIN target) \cup (DOMAIN source) |->
     IF k \in DOMAIN target THEN target[k] ELSE source[k]]

\* Object.assign( target, source ): every own key of the source is written to
\* the target, the other keys of the target stay
ObjectAssign(target, source) ==
  [k \in (DOMAIN target) \cup (DOMAIN source) |->
     IF k \in DOMAIN source THEN source[k] ELSE target[k]]

\* connect(): the three fields it stores for the arguments it received
Store(clusterId, clientId, options) ==
  [clusterId     |-> clusterId,
   clientId      |-> clientId,
   clientOptions |-> ObjectAssign(defaultOptions, options)]

\* the fields before the first connect()
Unset == [clusterId |-> None, clientId |-> None, clientOptions |-> <<>>]

\* arguments of connect() calls: no options, options that leave the defaults
\* alone, options that override two of them
NoOptions == <<>>
DemoArgs ==
  [clusterId |-> "test-cluster", clientId |-> "test", options |-> NoOptions]
ServerArgs ==
  [clusterId |-> "test-cluster", clientId |-> "demo",
   options |-> [servers |-> "nats://localhost:4222"]]
OverrideArgs ==
  [clusterId |-> "other-cluster", clientId |-> "other",
   options |-> [reconnect |-> FALSE, maxReconnectAttempts |-> 5]]

(* ------------------------------ CBuffer -------------------------------- *)
\* The ring buffer is the CBuffer package; the client uses push, shift,
\* unshift, length and the overflow hook.  A buffer is the sequence of the
\* items it holds, oldest first; each operation yields the new contents and
\* the items handed to the overflow hook.

\* a push that keeps the old contents of a full buffer and drops the new item
CBufferPushRejectNewest(buf, x) ==
  IF Len(buf) >= BufferSize
    THEN [buffer |-> buf,            dropped |-> <<x>>]
    ELSE [buffer |-> Append(buf, x), dropped |-> <<>>]

\* this.buffer.push( item ): append at the tail; a full buffer first reports
\* its head to the overflow hook and overwrites it.
CBufferPush(buf, x) ==
  IF Len(buf) >= BufferSize
    THEN [buffer |-> Append(Tail(buf), x), dropped |-> <<Head(buf)>>]
    ELSE [buffer |-> Append(buf, x),       dropped |-> <<>>]

\* an unshift that inserts at the tail, behind the items already waiting
CBufferUnshiftAtTail(buf, x) ==
  IF Len(buf) >= BufferSize
    THEN [buffer |-> SubSeq(buf, 1, Len(buf) - 1) \o <<x>>,
          dropped |-> <<buf[Len(buf)]>>]
    ELSE [buffer |-> buf \o <<x>>, dropped |-> <<>>]

\* this.buffer.unshift( item ): insert at the head; a full buffer first
\* reports its tail to the overflow hook and overwrites it.
CBufferUnshift(buf, x) ==
  IF Len(buf) >= BufferSize
    THEN [buffer |-> <<x>> \o SubSeq(buf, 1, Len(buf) - 1),
          dropped |-> <<buf[Len(buf)]>>]
    ELSE [buffer |-> <<x>> \o buf, dropped |-> <<>>]

\* a hook that drops the evicted item silently
overflowSilent(log, dropped) == log

\* this.overflow( data ): the hook installed by the constructor; it logs the
\* dropped item.  The log is the sequence `overflowed`.
overflow(log, dropped) == log \o dropped

(* -------------------------------- tick --------------------------------- *)
\* a tick that shifts the head before it looks at the session
tickShiftFirst(buf, st) ==
  IF Len(buf) > 0
    THEN IF st # 0
           THEN [buffer  |-> Tail(buf),
                 ticking |-> TRUE,
                 calls   |-> {[item |-> Head(buf), session |-> st]}]
           ELSE [buffer |-> Tail(buf), ticking |-> FALSE, calls |-> {}]
    ELSE [buffer |-> buf, ticking |-> FALSE, calls |-> {}]

\* a tick that takes the newest item (pop) instead of the oldest (shift)
tickPop(buf, st) ==
  IF st # 0
    THEN IF Len(buf) > 0
           THEN [buffer  |-> SubSeq(buf, 1, Len(buf) - 1),
                 ticking |-> TRUE,
                 calls   |-> {[item |-> buf[Len(buf)], session |-> st]}]
           ELSE [buffer |-> buf, ticking |-> FALSE, calls |-> {}]
    ELSE [buffer |-> buf, ticking |-> FALSE, calls |-> {}]

\* a tick that reads the head (first) and leaves it in the buffer
tickPeek(buf, st) ==
  IF st # 0
    THEN IF Len(buf) > 0
           THEN [buffer  |-> buf,
                 ticking |-> TRUE,
                 calls   |-> {[item |-> Head(buf), session |-> st]}]
           ELSE [buffer |-> buf, ticking |-> FALSE, calls |-> {}]
    ELSE [buffer |-> buf, ticking |-> FALSE, calls |-> {}]

\* a tick that keeps the item it hands to the session, at the tail
tickRequeue(buf, st) ==
  IF st # 0
    THEN IF Len(buf) > 0
           THEN [buffer  |-> Append(Tail(buf), Head(buf)),
                 ticking |-> TRUE,
                 calls   |-> {[item |-> Head(buf), session |-> st]}]
           ELSE [buffer |-> buf, ticking |-> FALSE, calls |-> {}]
    ELSE [buffer |-> buf, ticking |-> FALSE, calls |-> {}]

\* a tick that leaves the loop marked as draining when it finds no session
tickStaysAwake(buf, st) ==
  IF st # 0
    THEN IF Len(buf) > 0
           THEN [buffer  |-> Tail(buf),
                 ticking |-> TRUE,
                 calls   |-> {[item |-> Head(buf), session |-> st]}]
           ELSE [buffer |-> buf, ticking |-> FALSE, calls |-> {}]
    ELSE [buffer |-> buf, ticking |-> TRUE, calls |-> {}]

\* tick(): one step of the delivery loop, run on the buffer `buf` with the
\* current session `st`.  Yields the new buffer, the ticking flag and the
\* attempts it issued (at most one).
tick(buf, st) ==
  IF st # 0
    THEN IF Len(buf) > 0
           THEN [buffer  |-> Tail(buf),
                 ticking |-> TRUE,
                 calls   |-> {[item |-> Head(buf), session |-> st]}]
           ELSE [buffer |-> buf, ticking |-> FALSE, calls |-> {}]
    ELSE [buffer |-> buf, ticking |-> FALSE, calls |-> {}]

\* the effect of a tick() call on the state: it runs on the buffer `buf`
\* while the attempts `infl` are still awaiting their callback
RunTick(buf, infl) ==
  LET t == tick(buf, stan) IN
    /\ buffer'   = t.buffer
    /\ ticking'  = t.ticking
    /\ inflight' = infl \cup t.calls
    /\ attempts' = [i \in Items |->
                      attempts[i] + Cardinality({c \in t.calls : c.item = i})]

(* ------------------------------- Init ---------------------------------- *)

\* the state after the constructor, for a behaviour within the limits l
InitWith(l) ==
  /\ buffer = <<>>
  /\ stan = 0
  /\ ticking = FALSE
  /\ initialConnected = FALSE
  /\ waitForInitialConnection \in BOOLEAN
  /\ stored = Unset
  /\ sess = [s \in Sessions |-> None]
  /\ opened = Unset
  /\ by = None
  /\ promise = [s \in Sessions |-> None]
  /\ inflight = {}
  /\ waiter = [s \in Sessions |-> None]
  /\ micro = 0
  /\ called = Unset
  /\ published = 0
  /\ attempts = [i \in Items |-> 0]
  /\ acked = {}
  /\ overflowed = <<>>
  /\ failed = [i \in Items |-> 0]
  /\ ret = NoCall
  /\ lost = 0
  /\ limit = l
  /\ emitted = <<>>
  /\ publishFailCount = 0
  /\ connected = FALSE
  /\ timers = <<>>
  /\ pending = <<>>
  /\ reconnectTimer = FALSE

\* The 'error' handler of connect() changes no field of the client, so the
\* behaviours that exercise the buffer lose no session before 'connect'.
Init ==
  InitWith([pub |-> MaxPub, sessions |-> MaxSessions, fail |-> MaxFail,
            lost |-> 0, args |-> {DemoArgs}])

InitLifecycle ==
  InitWith([pub |-> LifePub, sessions |-> LifeSessions, fail |-> 0,
            lost |-> LifeLost, args |-> {DemoArgs, ServerArgs, OverrideArgs}])

InitFair ==
  InitWith([pub |-> FairPub, sessions |-> FairSessions, fail |-> MaxFail,
            lost |-> 0, args |-> {DemoArgs}])

(* ------------------------------ sessions ------------------------------- *)

Created == Cardinality({s \in Sessions : sess[s] # None})

\* reconnect() calls that have not yet reached their connect() step
PendingReconnects == micro + Cardinality({s \in Sessions : waiter[s] = "reconnect"})

\* the bound on sessions leaves room for one more nats.connect
CanOpen == Created + PendingReconnects < limit.sessions

\* `this.stan = nats.connect( ... )` drops the reference to the session held
\* before; one that was lost before 'connect' has nothing left to deliver and
\* counts as closed
Replaced(sessNow) ==
  [p \in Sessions |->
     IF p = stan /\ sessNow[p] = "failed" THEN "closed" ELSE sessNow[p]]

\* the body of connect( clusterId, clientId, options ) called by `who`: it
\* stores the arguments and opens a new session, not yet connected, with
\* them; `sessNow` is the state of the sessions when it runs
OpenSession(sessNow, who, clusterId, clientId, options) ==
  LET s == Created + 1 IN
    /\ stored'   = Store(clusterId, clientId, options)
    /\ stan'     = s
    /\ sess'     = [Replaced(sessNow) EXCEPT ![s] = "connecting"]
    /\ opened'   = stored'
    /\ by'       = who
    /\ promise'  = [p \in Sessions |->
                      IF p = s THEN "pending"
                      ELSE IF Replaced(sessNow)[p] = "closed" THEN None
                      ELSE promise[p]]

\* total number of failed attempts so far
Failures == LET RECURSIVE Sum(_) 
                Sum(i) == IF i = 0 THEN 0 ELSE failed[i] + Sum(i - 1)
            IN Sum(MaxPub)

(* ------------------------------ actions -------------------------------- *)

\* a guard that looks at the session instead of the initial-connection flag
publishRejectedNoSession == waitForInitialConnection /\ stan = 0

\* a guard that ignores the waitForInitialConnection option
publishRejectedAlways == ~initialConnected

\* a guard that asks for a connected session at the time of the call
publishRejectedNotConnected ==
  waitForInitialConnection /\ ~(stan # 0 /\ sess[stan] = "connected")

\* publish(): `if ( this.waitForInitialConnection && !this.initialConnected )`
publishRejected == waitForInitialConnection /\ ~initialConnected

\* a wake that never starts the loop
wakeNever == FALSE

\* a wake that ignores the state of the loop
wakeAlways == stan # 0

\* publish(): `if ( this.stan && !this.ticking )`
wake == stan # 0 /\ ~ticking

\* a publish that returns the length the push reported
publishReturnPushed(pushed, final) == Returned(Len(pushed))

\* publish(): `return this.buffer.length`, where `pushed` is the buffer
\* after the push and `final` the buffer when the call returns
publishReturn(pushed, final) == Returned(Len(final))

\* publish( subject, data )
publish ==
  IF publishRejected
    THEN /\ ret' = Threw
         /\ UNCHANGED <<buffer, stan, ticking, initialConnected,
                        waitForInitialConnection, stored, sess, opened, by,
                        promise, inflight, waiter, micro, called, published,
                        attempts, acked, overflowed, failed, lost, limit,
                        emitted, revision>>
    ELSE /\ published < limit.pub
         /\ LET p == CBufferPush(buffer, published + 1) IN
              /\ published' = published + 1
              /\ overflowed' = overflow(overflowed, p.dropped)
              /\ IF wake
                   THEN RunTick(p.buffer, inflight)
                   ELSE /\ buffer' = p.buffer
                        /\ UNCHANGED <<ticking, inflight, attempts>>
              /\ ret' = publishReturn(p.buffer, buffer')
         /\ UNCHANGED <<stan, initialConnected, waitForInitialConnection,
                        stored, sess, opened, by, promise, waiter, micro,
                        called, acked, failed, lost, limit,
                        emitted, revision>>

\* connect( clusterId, clientId, options ) called by the user, up to the end
\* of the promise executor
connect ==
  /\ CanOpen
  /\ \E a \in limit.args :
       /\ called' = a
       /\ OpenSession(sess, "connect", a.clusterId, a.clientId, a.options)
  /\ ret' = NoCall
  /\ UNCHANGED <<buffer, ticking, initialConnected, waitForInitialConnection,
                 inflight, waiter, micro, published, attempts, acked,
                 overflowed, failed, lost, limit,
                 emitted, revision>>

\* resolve( true ) / reject( error ): a promise settles once
Settle(p, outcome) == IF p = "pending" THEN outcome ELSE p

\* the 'connect' handler that connect() registered on session s
OnConnect(s) ==
  /\ micro = 0
  /\ sess[s] = "connecting"
  /\ sess' = [sess EXCEPT ![s] = "connected"]
  /\ initialConnected' = TRUE
  /\ RunTick(buffer, inflight)
  /\ promise' = [promise EXCEPT ![s] = Settle(@, "resolved")]
  /\ by' = IF s = Created THEN None ELSE by
  /\ ret' = NoCall
  /\ UNCHANGED <<stan, waitForInitialConnection, stored, opened, waiter,
                 micro, called, published, acked, overflowed, failed, lost,
                 limit,
                 emitted, revision>>

\* the 'error' handler of connect(): `if ( !this.initialConnected )`
errorRejects == ~initialConnected

\* the 'error' event of session s.  Before 'connect' it reaches the handler
\* of connect() and the session is lost: no 'connect' follows.  After
\* disconnect() it reaches the `reject` of that call, and a reconnect()
\* awaiting that disconnect() ends there.
OnError(s) ==
  /\ micro = 0
  /\ \/ sess[s] = "connecting" /\ lost < limit.lost
     \/ sess[s] = "closed" /\ waiter[s] # None
  /\ lost' = IF sess[s] = "connecting" THEN lost + 1 ELSE lost
  /\ sess' = [sess EXCEPT ![s] = IF @ = "connecting" THEN "failed" ELSE @]
  /\ promise' = [promise EXCEPT ![s] =
                   IF sess[s] = "connecting" /\ errorRejects
                     THEN Settle(@, "rejected") ELSE @]
  /\ by' = IF s = Created /\ promise'[s] = "rejected" THEN None ELSE by
  /\ waiter' = [waiter EXCEPT ![s] = None]
  /\ ret' = NoCall
  /\ UNCHANGED <<buffer, stan, ticking, initialConnected,
                 waitForInitialConnection, stored, opened, inflight, micro,
                 called, published, attempts, acked, overflowed, failed, limit,
                 emitted, revision>>

\* a disconnect() that forgets to resolve when there is no session
disconnectResultForgets(throws) ==
  IF stan # 0 /\ throws THEN Rejected ELSE Pending

\* the promise of a disconnect() call when its executor returns; `throws`
\* tells whether stan.close() threw
disconnectResult(throws) ==
  IF stan # 0
    THEN IF throws THEN Rejected ELSE Pending
    ELSE Resolved

\* a disconnect() that registers its listeners but does not call close()
CloseSessionNoClose(who, throws) ==
  IF stan # 0
    THEN /\ waiter' = [waiter EXCEPT ![stan] = who]
         /\ stan' = 0
         /\ UNCHANGED <<sess, promise, by, micro>>
    ELSE /\ micro' = IF who = "reconnect" /\ disconnectResult(throws) = Resolved
                       THEN micro + 1 ELSE micro
         /\ UNCHANGED <<waiter, sess, stan, promise, by>>

\* the body of disconnect(), called by `who` (disconnect or reconnect).
\* stan.close() throws on some sessions that have not connected; the
\* statements after it are then skipped and the promise is rejected.  A
\* reconnect() awaiting a promise that is resolved already has its
\* continuation queued.
CloseSession(who, throws) ==
  IF stan # 0
    THEN IF throws
           THEN UNCHANGED <<waiter, sess, stan, promise, micro, by>>
           ELSE /\ waiter' = [waiter EXCEPT ![stan] = who]
                /\ sess' = [sess EXCEPT ![stan] = "closed"]
                /\ promise' = [promise EXCEPT ![stan] = None]
                /\ by' = IF stan = Created THEN None ELSE by
                /\ stan' = 0
                /\ UNCHANGED micro
    ELSE /\ micro' = IF who = "reconnect" /\ disconnectResult(throws) = Resolved
                       THEN micro + 1 ELSE micro
         /\ UNCHANGED <<waiter, sess, stan, promise, by>>

\* whether stan.close() may throw / may return: it may throw only on a
\* session that has not signalled 'connect'
MayThrow(throws) ==
  throws => stan # 0 /\ sess[stan] \in {"connecting", "failed"}

\* disconnect()
disconnect ==
  /\ \E throws \in BOOLEAN :
       /\ MayThrow(throws)
       /\ CloseSession("disconnect", throws)
       /\ ret' = IF throws THEN CloseThrew ELSE NoCall
  /\ UNCHANGED <<buffer, ticking, initialConnected, waitForInitialConnection,
                 stored, opened, inflight, called, published, attempts,
                 acked, overflowed, failed, lost, limit,
                 emitted, revision>>

\* a reconnect() that does not wait for disconnect() before it connects
reconnectNoAwait ==
  /\ stored # Unset
  /\ CanOpen
  /\ OpenSession(IF stan # 0 THEN [sess EXCEPT ![stan] = "closed"] ELSE sess,
                 "reconnect", stored.clusterId, stored.clientId,
                 stored.clientOptions)
  /\ waiter' = IF stan # 0 THEN [waiter EXCEPT ![stan] = "disconnect"]
                           ELSE waiter
  /\ ret' = NoCall
  /\ UNCHANGED <<buffer, ticking, initialConnected, waitForInitialConnection,
                 inflight, micro, called, published, attempts, acked,
                 overflowed, failed, lost, limit,
                 emitted, revision>>

\* reconnect(), up to `await this.disconnect()`; a disconnect() that is
\* rejected ends the call
reconnect ==
  /\ stored # Unset
  /\ CanOpen
  /\ \E throws \in BOOLEAN :
       /\ MayThrow(throws)
       /\ CloseSession("reconnect", throws)
  /\ ret' = NoCall
  /\ UNCHANGED <<buffer, ticking, initialConnected, waitForInitialConnection,
                 stored, opened, inflight, called, published, attempts,
                 acked, overflowed, failed, lost, limit,
                 emitted, revision>>

\* reconnect(), resumed after a disconnect() that found no session: connect()
ReconnectResume ==
  /\ micro > 0
  /\ micro' = micro - 1
  /\ OpenSession(sess, "reconnect", stored.clusterId, stored.clientId,
                 stored.clientOptions)
  /\ ret' = NoCall
  /\ UNCHANGED <<buffer, ticking, initialConnected, waitForInitialConnection,
                 inflight, waiter, called, published, attempts, acked,
                 overflowed, failed, lost, limit,
                 emitted, revision>>

\* the 'disconnect' event of a session closed by disconnect(): its promise
\* resolves, and a reconnect() awaiting it resumes with connect()
OnDisconnect(s) ==
  /\ micro = 0
  /\ sess[s] = "closed"
  /\ waiter[s] # None
  /\ waiter' = [waiter EXCEPT ![s] = None]
  /\ IF waiter[s] = "reconnect"
       THEN OpenSession(sess, "reconnect",
                        stored.clusterId, stored.clientId, stored.clientOptions)
       ELSE UNCHANGED <<sess, stan, stored, opened, by, promise>>
  /\ ret' = NoCall
  /\ UNCHANGED <<buffer, ticking, initialConnected, waitForInitialConnection,
                 inflight, micro, called, published, attempts, acked,
                 overflowed, failed, lost, limit,
                 emitted, revision>>

\* the callback of stan.publish for attempt a, with or without an error
PublishCallback(a, error) ==
  /\ micro = 0
  /\ a \in inflight
  /\ IF error
       THEN /\ Failures < limit.fail
            /\ LET u == CBufferUnshift(buffer, a.item) IN
                 /\ overflowed' = overflow(overflowed, u.dropped)
                 /\ RunTick(u.buffer, inflight \ {a})
            /\ failed' = [failed EXCEPT ![a.item] = @ + 1]
            /\ UNCHANGED acked
       ELSE /\ acked' = acked \cup {a.item}
            /\ RunTick(buffer, inflight \ {a})
            /\ UNCHANGED <<overflowed, failed>>
  /\ ret' = NoCall
  /\ UNCHANGED <<stan, initialConnected, waitForInitialConnection, stored,
                 sess, opened, by, promise, waiter, micro, called, published,
                 lost, limit,
                 emitted, revision>>

Next ==
  \/ publish
  \/ connect
  \/ disconnect
  \/ reconnect
  \/ ReconnectResume
  \/ \E s \in Sessions : OnConnect(s)
  \/ \E s \in Sessions : OnError(s)
  \/ \E s \in Sessions : OnDisconnect(s)
  \/ \E a \in inflight : \E error \in BOOLEAN : PublishCallback(a, error)

Spec == Init /\ [][Next]_vars

\* the same client, driven through more sessions and connect arguments
SpecLifecycle == InitLifecycle /\ [][Next]_vars

\* What the event loop and a session that stays up deliver sooner or later:
\* a queued continuation runs, a session that was opened and not closed
\* signals 'connect', a closed session signals 'disconnect', and a publish
\* call gets its callback.  Errors are never owed.
Fairness ==
  /\ WF_vars(ReconnectResume)
  /\ \A s \in Sessions : WF_vars(OnConnect(s)) /\ WF_vars(OnDisconnect(s))
  /\ WF_vars(\E a \in inflight : PublishCallback(a, FALSE))

\* the same client with those deliveries guaranteed
SpecFair == InitFair /\ [][Next]_vars /\ Fairness

(* ------------------------------ claims --------------------------------- *)

Min(a, b) == IF a < b THEN a ELSE b

\* the step is a publish call / a publish call that accepted its item
PublishCalled   == ret'.kind \in {"error", "length"}
PublishAccepted == ret'.kind = "length"

\* the items for which the step called stan.publish
Issued == {i \in Items : attempts'[i] > attempts[i]}

\* the item the step handed to the session, as a sequence (at most one)
IssuedSeq == IF Issued = {} THEN <<>> ELSE <<CHOOSE i \in Issued : TRUE>>

Occurrences(seq, i) == Cardinality({k \in 1..Len(seq) : seq[k] = i})
InFlight(i) == \E a \in inflight : a.item = i

\* C1: the buffer never holds more than BufferSize items; a publish on a full
\* buffer evicts exactly the oldest item and hands that item, once, to the
\* overflow hook; a publish on a buffer that is not full evicts nothing; no
\* item is ever reported to the hook twice.
C1_BoundedOverflow ==
  /\ [](Len(buffer) <= BufferSize)
  /\ [](\A i \in Items : Occurrences(overflowed, i) <= 1)
  /\ [][PublishAccepted =>
          IF Len(buffer) = BufferSize
            THEN /\ overflowed' = Append(overflowed, Head(buffer))
                 /\ IssuedSeq \o buffer' = Append(Tail(buffer), published')
            ELSE /\ overflowed' = overflowed
                 /\ IssuedSeq \o buffer' = Append(buffer, published')]_vars

\* BufferSize + 1 publishes with no session: the first item was evicted
C1_Witness ==
  /\ Created = 0
  /\ published = BufferSize + 1
  /\ buffer = [k \in 1..BufferSize |-> k + 1]
  /\ overflowed = <<1>>

\* the number of places that hold item i
Places(i) ==
  Occurrences(buffer, i) + Cardinality({a \in inflight : a.item = i})
    + (IF i \in acked THEN 1 ELSE 0) + Occurrences(overflowed, i)

\* C2: every item accepted by publish is in exactly one of the buffer, an
\* in-flight attempt, the acknowledged items, the overflow reports; an item
\* not yet published is in none.
C2_Conservation ==
  \A i \in Items : Places(i) = IF i <= published THEN 1 ELSE 0

\* one item acknowledged, one reported by overflow, one in flight after a
\* failed attempt was put back, on a client that has reconnected
C2_Witness ==
  /\ acked # {}
  /\ overflowed # <<>>
  /\ inflight # {}
  /\ Failures > 0
  /\ Created = 2

\* C3: as long as no attempt has failed, every item handed to stan.publish
\* was published after every item handed to it before.
C3_FifoWithoutFailure ==
  [][\A x \in Issued :
        Failures' = 0 => \A y \in Items : attempts[y] > 0 => y < x]_vars

\* all items handed over without a failure, two attempts in flight at once
\* on two sessions
C3_Witness ==
  /\ Failures = 0
  /\ \A i \in Items : attempts[i] = 1
  /\ Cardinality(inflight) = 2
  /\ Created = 2

\* C4: once an attempt for item x has failed, no item published after x is
\* acknowledged before x is; the failed item is put back at the head and is
\* the next item attempted.
C4_FailedItemKeepsItsTurn ==
  /\ [][\A y \in acked' \ acked :
          \A x \in 1..(y - 1) : failed[x] > 0 => x \in acked]_vars
  /\ [][\A x \in Items : failed'[x] > failed[x] =>
          IF stan # 0 THEN Issued = {x} ELSE Head(buffer') = x]_vars

\* C5: an acknowledged item was handed to the session once per failure plus
\* once for the success, is in no attempt and not in the buffer; an item that
\* is not acknowledged was handed over once per failure, plus once while an
\* attempt for it is in flight.
C5_ExactlyOnce ==
  \A i \in Items :
    /\ attempts[i] = failed[i] + (IF i \in acked \/ InFlight(i) THEN 1 ELSE 0)
    /\ i \in acked => ~InFlight(i) /\ Occurrences(buffer, i) = 0

\* an item was acknowledged after one failed attempt, and a later item too
C5_Witness ==
  \E i \in acked :
    /\ failed[i] = 1
    /\ attempts[i] = 2
    /\ \E j \in acked : j > i

\* C6: with waitForInitialConnection enabled and no 'connect' event received,
\* a publish call fails and changes nothing.
C6_RejectedBeforeConnect ==
  [][(PublishCalled /\ waitForInitialConnection /\ ~initialConnected) =>
        /\ ret' = Threw
        /\ UNCHANGED <<buffer, ticking, stan, sess, inflight, attempts,
                       published, overflowed, acked>>]_vars

\* a publish was rejected while a session exists that has not connected
C6_Witness ==
  /\ waitForInitialConnection
  /\ ~initialConnected
  /\ ret = Threw
  /\ stan # 0

\* C7: with waitForInitialConnection disabled a publish call never fails: the
\* item is accepted and is the tail of the buffer, or was the only item and
\* was handed to the session by the wake of that call.
C7_AlwaysAccepted ==
  [][(PublishCalled /\ ~waitForInitialConnection) =>
        /\ ret' # Threw
        /\ published' = published + 1
        /\ LET held == IssuedSeq \o buffer' IN held[Len(held)] = published'
        /\ buffer' = <<>> \/ buffer'[Len(buffer')] = published']_vars

\* a publish was accepted after a disconnect, before any 'connect' event
C7_Witness ==
  /\ ~waitForInitialConnection
  /\ ret.kind = "length"
  /\ ret.value > 0
  /\ stan = 0
  /\ \E s \in Sessions : sess[s] = "closed"
  /\ ~initialConnected
  /\ Len(buffer) > 0
  /\ buffer[Len(buffer)] = published

\* C8: publish returns the length of the buffer at the moment it returns;
\* with no session that is min(previous length + 1, BufferSize), and > 0.
C8_ReturnsLength ==
  [][PublishAccepted =>
        /\ ret'.value = Len(buffer')
        /\ stan = 0 => /\ ret'.value = Min(Len(buffer) + 1, BufferSize)
                       /\ ret'.value > 0]_vars

\* a publish on an idle connected client returned 0: its item went straight
\* to the session
C8_Witness ==
  /\ ret = Returned(0)
  /\ stan # 0
  /\ published > 0
  /\ InFlight(published)

\* C9: a stan.publish call is made only on a session that has signalled
\* 'connect' (and is the current one, not closed).
C9_PublishOnlyWhenConnected ==
  [][Issued # {} => stan' # 0 /\ sess'[stan'] = "connected"]_vars

\* C10: at most one stan.publish call is awaiting its callback.
C10_SingleDrain == Cardinality(inflight) <= 1

(* ---------------------------- session lifecycle ------------------------ *)

\* C11: reconnect is single-flight: reconnect() calls that overlap are
\* coalesced, so at most one of them is on its way to open a session.
C11_ReconnectSingleFlight == PendingReconnects <= 1

\* the step loses the latest session before 'connect' while a reconnect()
\* awaits the connect() that opened it
ReconnectConnectFails ==
  /\ by = "reconnect"
  /\ sess[Created] = "connecting"
  /\ sess'[Created] = "failed"

\* C12: reconnect never gives up: when the session its connect step opened
\* is lost before 'connect', another attempt is on its way.
C12_ReconnectTriesAgain ==
  [][ReconnectConnectFails => PendingReconnects' > 0]_vars

\* the step delivers a failed callback for item i
FailedStep(i) == failed'[i] > failed[i]

\* the step starts a reconnect()
ReconnectStarted == PendingReconnects' > PendingReconnects

Untouched ==
  UNCHANGED <<buffer, ticking, stan, stored, initialConnected,
              waitForInitialConnection, sess, opened, promise, by, inflight,
              waiter>>

\* C14: disconnect() without a session resolves within the call and changes
\* nothing: not the buffer, the loop, the stored connection parameters, the
\* initial-connection flag, nor any session.  The same holds when
\* reconnect() makes the call, whose continuation is queued in that step.
C14_DisconnectWithoutSession ==
  [][stan = 0 =>
       /\ \A throws \in BOOLEAN :
            MayThrow(throws) => disconnectResult(throws) = Resolved
       /\ disconnect => Untouched /\ micro' = micro
       /\ reconnect => Untouched /\ micro' = micro + 1]_vars

\* disconnect() was called again after the session was closed, by a
\* reconnect(), with an item in the buffer: it resolved at once and the
\* continuation of reconnect() is queued
C14_Witness ==
  /\ micro > 0
  /\ stan = 0
  /\ stored # Unset
  /\ \E s \in Sessions : sess[s] = "closed"
  /\ Len(buffer) > 0

C16_ConnectClosesPrior ==
  [][stan # 0 /\ sess[stan] \in {"connecting", "connected"} /\ connect
       => sess'[stan] = "closed"]_vars

\* C17: the promise of each connect() call settles on the outcome of the
\* session that call opened: resolved once that session has signalled
\* 'connect', rejected once it was lost before 'connect'; this holds for the
\* first call and for every later one.
C17_ConnectSettlesOnItsSession ==
  \A s \in Sessions :
    /\ sess[s] = "connected" => promise[s] = "resolved"
    /\ sess[s] = "failed" => promise[s] = "rejected"

\* the client holds a session that has signalled 'connect'
Connected == stan # 0 /\ sess[stan] = "connected"

\* every item accepted so far was acknowledged or evicted, nothing is
\* buffered or in flight, and the loop is idle
Drained ==
  /\ buffer = <<>>
  /\ inflight = {}
  /\ ~ticking
  /\ \A i \in 1..published :
       i \in acked \/ \E k \in DOMAIN overflowed : overflowed[k] = i

EffectiveOptions(options) ==
  [k \in DOMAIN defaultOptions \cup DOMAIN options |->
     IF k \in DOMAIN options THEN options[k] ELSE defaultOptions[k]]

\* C19: nats.connect receives the defaults overridden key by key by the
\* options of the latest connect() call, with the cluster id and client id
\* of that call; a session opened by reconnect() receives the same.
C19_EffectiveOptions ==
  opened # Unset =>
    /\ opened.clusterId = called.clusterId
    /\ opened.clientId = called.clientId
    /\ opened.clientOptions = EffectiveOptions(called.options)
    /\ ObjectAssign(defaultOptions, opened.clientOptions) = opened.clientOptions

\* a reconnect() opened a session after a connect() that overrode two of the
\* defaults
C19_Witness ==
  /\ called = OverrideArgs
  /\ by = "reconnect"
  /\ stan # 0
  /\ sess[stan] = "connecting"
  /\ opened.clientOptions.reconnect = FALSE
  /\ opened.clientOptions.maxReconnectAttempts = 5

\* the step opens a session for a reconnect() call
ReconnectOpens == Created' > Created /\ by' = "reconnect"

\* the step ends the disconnect() of a reconnect() call: its continuation
\* runs after a disconnect() that found no session, or the session it
\* closed signals 'disconnect'
ReconnectDisconnected ==
  \/ micro' = micro - 1
  \/ \E s \in Sessions :
       /\ sess[s] = "closed"
       /\ waiter[s] = "reconnect"
       /\ waiter'[s] = None

\* C20: reconnect() opens its session only in the step that completes its
\* disconnect(), never while the session it closed is still to answer, and
\* passes the cluster id, client id and options that the latest connect()
\* call stored.
C20_ReconnectAfterDisconnect ==
  [][ReconnectOpens =>
       /\ ReconnectDisconnected
       /\ PendingReconnects' = PendingReconnects - 1
       /\ opened' = stored
       /\ stored' = stored
       /\ stored = Store(called.clusterId, called.clientId, called.options)]_vars

\* a reconnect() closed a connected session, that session signalled
\* 'disconnect', and the session opened next has connected in its turn
C20_Witness ==
  /\ Created >= 2
  /\ stan = Created
  /\ sess[stan] = "connected"
  /\ opened = stored
  /\ called # DemoArgs
  /\ \E s \in Sessions : sess[s] = "closed" /\ waiter[s] = None /\ s < stan

(* ------------------------ forced reconnect signals --------------------- *)

\* the signals the README announces for a forced reconnect, in order
ForcedSignals ==
  <<"forced_reconnecting", "forced_disconnected", "forced_reconnected">>

\* the step completes a forced reconnect: the session that reconnect()
\* opened signals 'connect'
ReconnectCompleted ==
  /\ by = "reconnect"
  /\ by' = None
  /\ stan # 0
  /\ sess[stan] = "connecting"
  /\ sess'[stan] = "connected"

\* C21: when a forced reconnect completes, the client has emitted
\* forced_reconnecting, forced_disconnected and forced_reconnected, in that
\* order, as its latest three signals.
C21_ForcedReconnectSignals ==
  [][ReconnectCompleted =>
       /\ Len(emitted') >= 3
       /\ SubSeq(emitted', Len(emitted') - 2, Len(emitted')) = ForcedSignals]_vars

(* ---------------------------- wake condition --------------------------- *)

\* the stan.publish calls awaiting their callback for item i
Awaiting(infl, i) == {a \in infl : a.item = i}

C23_ReinsertAtCapacity ==
  [][\A i \in Items :
       FailedStep(i) /\ Len(buffer) = BufferSize =>
         LET evicted == buffer[BufferSize] IN
           /\ Len(IssuedSeq \o buffer') = BufferSize
           /\ Head(IssuedSeq \o buffer') = i
           /\ IssuedSeq \o buffer' = <<i>> \o SubSeq(buffer, 1, BufferSize - 1)
           /\ overflowed' = Append(overflowed, evicted)
           /\ Occurrences(overflowed', evicted) = 1
           /\ Occurrences(buffer', evicted) = 0]_vars

\* the attempt for item 1 failed while items 2 and 3 filled the buffer: item
\* 1 is in flight again, item 2 waits, item 3 was reported to the hook
C23_Witness ==
  /\ failed[1] = 1
  /\ attempts[1] = 2
  /\ Awaiting(inflight, 1) # {}
  /\ buffer = <<2>>
  /\ overflowed = <<3>>

(* ----------------------- drain step without session -------------------- *)

\* the step ran tick() from a callback: a session signalled 'connect', or a
\* stan.publish callback arrived
TickFromCallback ==
  \/ \E s \in Sessions : sess[s] = "connecting" /\ sess'[s] = "connected"
  \/ \E a \in inflight : a \notin inflight'

\* the buffer a callback hands to its tick(): a failed callback has put its
\* item back at the head first
BeforeTick ==
  IF \E i \in Items : FailedStep(i)
    THEN LET i == CHOOSE j \in Items : FailedStep(j) IN
           <<i>> \o SubSeq(buffer, 1, Min(Len(buffer), BufferSize - 1))
    ELSE buffer

\* C24: a drain step that runs while the client holds no session makes no
\* stan.publish call, leaves the buffer it found as it is, contents and
\* order, and leaves the loop idle.
C24_DrainWithoutSession ==
  [][stan = 0 /\ TickFromCallback =>
       /\ Issued = {}
       /\ inflight' \subseteq inflight
       /\ buffer' = BeforeTick
       /\ ~ticking']_vars

\* after disconnect() the callback of the attempt that was in flight reported
\* a failure: its item is back at the head of the buffer, in front of the
\* item published meanwhile, nothing is in flight and the loop is idle
C24_Witness ==
  /\ stan = 0
  /\ failed[1] = 1
  /\ attempts[1] = 1
  /\ buffer = <<1, 2>>
  /\ inflight = {}
  /\ ~ticking

(* --------------------------- the ticking flag -------------------------- *)

\* C29: between callbacks, ticking is true exactly when one stan.publish
\* call is awaiting its callback.
C29_TickingIffInFlight == ticking <=> Cardinality(inflight) = 1

(* ------------------------ no duplicate after ack ----------------------- *)

\* C30: an item whose attempt was acknowledged is never handed to a session
\* again and never re-enters the buffer: from the step of its acknowledgment
\* on, no step calls stan.publish for it, it is not in the buffer, and no
\* attempt for it awaits a callback.
C30_NoDuplicateAfterAck ==
  [][\A i \in acked' :
       /\ i \notin Issued
       /\ Occurrences(buffer', i) = 0
       /\ Awaiting(inflight', i) = {}
       /\ i \in acked => attempts'[i] = attempts[i]]_vars

\* item 1 was acknowledged; the attempt for item 2 failed and, after the
\* client moved to a second session, item 2 is in flight again while item 1
\* was handed over once only
C30_Witness ==
  /\ acked = {1}
  /\ attempts[1] = 1
  /\ failed[2] = 1
  /\ attempts[2] = 2
  /\ Awaiting(inflight, 2) # {}
  /\ Created = 2
  /\ stan = 2

(* ------------- the retry-counter revision (src/unnamed/part_000) ------- *)
\* An earlier revision of the client.  It has no ticking flag and no promise
\* API: run() reads the head of the buffer (first) and leaves it there until
\* the callback of stan.publish reports success, counts the failures in
\* publishFailCount, retries after a delay and reconnects past a threshold.
\* `pending` holds the item of each stan.publish call awaiting its callback,
\* `timers` the delay of each retry scheduled and not yet run.

\* the variables of the current client that this revision does not have
notRetry ==
  <<ticking, initialConnected, waitForInitialConnection, opened, by, promise,
    inflight, waiter, micro, called, ret, lost, limit, emitted,
    reconnectTimer>>

\* seq without its k-th element
Remove(seq, k) == SubSeq(seq, 1, k - 1) \o SubSeq(seq, k + 1, Len(seq))

\* run(): `if ( this.publishFailCount > 10 )`
thresholdCrossed(count) == count > 10

\* a delay that does not grow with the failures
retryDelayFlat(count) == 100

\* run(): `setTimeout( ..., 100 * this.publishFailCount )`
retryDelay(count) == 100 * count

\* a counter that a successful publish leaves alone
failCountKeep(count, error) == IF error THEN count + 1 ELSE count

\* run(), publish callback: `this.publishFailCount++` on an error,
\* `this.publishFailCount = 0` on success
failCount(count, error) == IF error THEN count + 1 ELSE 0

\* run(): the stan.publish calls awaiting their callback after a run() on
\* the buffer `buf` with the session `st`, and the attempts counted
run(buf, st, pend) ==
  IF Len(buf) > 0 /\ st # 0 THEN Append(pend, Head(buf)) ELSE pend

RunRetry(buf, st, pend) ==
  /\ pending' = run(buf, st, pend)
  /\ attempts' = IF Len(buf) > 0 /\ st # 0
                   THEN [attempts EXCEPT ![Head(buf)] = @ + 1]
                   ELSE attempts

\* the body of connect( clusterId, clientId, options ): close the current
\* session, open the next one, store the arguments
connectRetry(clusterId, clientId, options) ==
  LET s == Created + 1 IN
    /\ sess' = [(IF stan # 0 THEN [sess EXCEPT ![stan] = "closed"] ELSE sess)
                  EXCEPT ![s] = "connecting"]
    /\ stan' = s
    /\ stored' = [clusterId |-> clusterId, clientId |-> clientId,
                  clientOptions |-> options]

\* the body of reconnect(): `if ( this.clusterId && this.clusterId )`
reconnectRetry ==
  IF stored.clusterId # None
    THEN connectRetry(stored.clusterId, stored.clientId, stored.clientOptions)
    ELSE UNCHANGED <<sess, stan, stored>>

\* connect( clusterId, clientId, options ) called by the user.  (When
\* close() throws on the current session the call changes nothing.)
RetryConnect ==
  /\ Created < limit.sessions
  /\ \E a \in limit.args : connectRetry(a.clusterId, a.clientId, a.options)
  /\ UNCHANGED <<buffer, published, overflowed, acked, failed, attempts,
                 publishFailCount, connected, timers, pending, notRetry>>

\* reconnect() called by the user
RetryReconnect ==
  /\ stored.clusterId # None
  /\ Created < limit.sessions
  /\ reconnectRetry
  /\ UNCHANGED <<buffer, published, overflowed, acked, failed, attempts,
                 publishFailCount, connected, timers, pending, notRetry>>

\* disconnect() while a session is held.  (Without one the promise never
\* settles and nothing changes.)
RetryDisconnect ==
  /\ stan # 0
  /\ sess' = [sess EXCEPT ![stan] = "closed"]
  /\ stan' = 0
  /\ UNCHANGED <<buffer, stored, published, overflowed, acked, failed,
                 attempts, publishFailCount, connected, timers, pending,
                 notRetry>>

\* publish( subject, data )
RetryPublish ==
  /\ published < limit.pub
  /\ LET emptyBuffer == buffer = <<>>
         p == CBufferPush(buffer, published + 1) IN
       /\ published' = published + 1
       /\ buffer' = p.buffer
       /\ overflowed' = overflow(overflowed, p.dropped)
       /\ IF connected /\ emptyBuffer
            THEN RunRetry(p.buffer, stan, pending)
            ELSE UNCHANGED <<pending, attempts>>
  /\ UNCHANGED <<stan, sess, stored, acked, failed, publishFailCount,
                 connected, timers, notRetry>>

\* the 'connect' handler of session s
RetryOnConnect(s) ==
  /\ sess[s] = "connecting"
  /\ sess' = [sess EXCEPT ![s] = "connected"]
  /\ publishFailCount' = 0
  /\ IF buffer # <<>>
       THEN RunRetry(buffer, stan, pending)
       ELSE UNCHANGED <<pending, attempts>>
  /\ connected' = FALSE
  /\ UNCHANGED <<buffer, stan, stored, published, overflowed, acked,
                 failed, timers, notRetry>>

\* (The 'disconnect' handler sets this.connected = false, which it is
\* already: the 'connect' handler sets it to false as well.  The handler
\* changes nothing.)

\* the k-th retry timer runs: run()
RetryTimer(k) ==
  /\ k \in DOMAIN timers
  /\ timers' = Remove(timers, k)
  /\ RunRetry(buffer, stan, pending)
  /\ UNCHANGED <<buffer, stan, sess, stored, published, overflowed,
                 acked, failed, publishFailCount, connected, notRetry>>

\* the callback of the k-th stan.publish call awaiting one.  Past the
\* threshold it calls reconnect(), whose close() may throw on a session that
\* has not connected: nothing but the counter changes then.
RetryCallback(k, error) ==
  /\ k \in DOMAIN pending
  /\ publishFailCount' = failCount(publishFailCount, error)
  /\ IF error
       THEN /\ Failures < limit.fail
            /\ failed' = [failed EXCEPT ![pending[k]] = @ + 1]
            /\ pending' = Remove(pending, k)
            /\ IF thresholdCrossed(publishFailCount')
                 THEN /\ Created < limit.sessions
                      /\ \E throws \in BOOLEAN :
                           /\ MayThrow(throws)
                           /\ IF throws
                                THEN UNCHANGED <<sess, stan, stored>>
                                ELSE reconnectRetry
                      /\ UNCHANGED timers
                 ELSE /\ timers' = Append(timers, retryDelay(publishFailCount'))
                      /\ UNCHANGED <<sess, stan, stored>>
            /\ UNCHANGED <<buffer, acked, attempts>>
       ELSE /\ acked' = acked \cup {pending[k]}
            /\ buffer' = IF buffer = <<>> THEN buffer ELSE Tail(buffer)
            /\ RunRetry(buffer', stan, Remove(pending, k))
            /\ UNCHANGED <<sess, stan, stored, failed, timers>>
  /\ UNCHANGED <<published, overflowed, connected, notRetry>>

NextRetry ==
  \/ RetryPublish
  \/ RetryConnect
  \/ RetryReconnect
  \/ RetryDisconnect
  \/ \E s \in Sessions : RetryOnConnect(s)
  \/ \E k \in DOMAIN timers : RetryTimer(k)
  \/ \E k \in DOMAIN pending : \E error \in BOOLEAN : RetryCallback(k, error)

InitRetry ==
  /\ InitWith([pub |-> RetryPub, sessions |-> RetrySessions,
               fail |-> RetryFail, lost |-> 0, args |-> {DemoArgs}])
  /\ waitForInitialConnection = FALSE

SpecRetry == InitRetry /\ [][NextRetry]_vars

(* ------------------- claims on the retry-counter revision -------------- *)

\* the step is a stan.publish callback that reported an error
RetryFailed == \E i \in Items : FailedStep(i)

\* the step is a stan.publish callback that reported success
RetrySucceeded == \E k \in DOMAIN pending : RetryCallback(k, FALSE)

\* the step opens a session
SessionOpened == Created' > Created

\* a reconnect() was triggered past the threshold and no session has
\* signalled 'connect' since: the counter is reset only by 'connect' and by
\* a successful publish
AwaitingReconnect ==
  /\ publishFailCount > 10
  /\ stan # 0
  /\ sess[stan] = "connecting"

\* C26, first part: a failed callback that takes the counter past 10 calls
\* reconnect() and schedules no retry; any other failed callback schedules
\* exactly one retry and opens no session.
C26_RetryOrReconnect ==
  [][RetryFailed =>
       IF publishFailCount' > 10
         THEN /\ timers' = timers
              /\ Issued = {}
              /\ SessionOpened \/ UNCHANGED <<stan, sess, stored>>
         ELSE /\ Len(timers') = Len(timers) + 1
              /\ Issued = {}
              /\ ~SessionOpened]_vars

\* C26, as stated: once reconnect() has been triggered, no stan.publish call
\* is made until the new session signals 'connect' (the step of that event,
\* which resets the counter, is free to make one).
C26_NoRetryBeforeConnect ==
  [][AwaitingReconnect /\ publishFailCount' > 10 => Issued = {}]_vars

\* C27: the counter is the number of consecutive failures since the last
\* success or 'connect': a failed callback adds 1 to it, a successful one and
\* a 'connect' event set it to 0, and no other step changes it.
C27_ConsecutiveFailures ==
  [][publishFailCount' =
       IF RetryFailed THEN publishFailCount + 1
       ELSE IF RetrySucceeded \/ (\E s \in Sessions : RetryOnConnect(s)) THEN 0
       ELSE publishFailCount]_vars

\* eleven attempts in a row failed, the counter passed the threshold, and the
\* session that reconnect() opened has signalled 'connect': the counter is 0
C27_Witness ==
  /\ failed[1] = 11
  /\ acked = {}
  /\ Created = 2
  /\ stan = 2
  /\ sess[2] = "connected"
  /\ publishFailCount = 0

\* C28: the retry scheduled by the k-th consecutive failure has the delay
\* 100 ms x k, for k from 1 to 10; no delay exceeds 1000 ms.
C28_RetryDelay ==
  /\ [][Len(timers') > Len(timers) =>
          /\ publishFailCount' \in 1..10
          /\ timers' = Append(timers, 100 * publishFailCount')]_vars
  /\ [](\A k \in DOMAIN timers : timers[k] \in {100 * c : c \in 1..10})
  /\ [](\A k \in DOMAIN timers : timers[k] <= 1000)

\* the tenth consecutive failure has scheduled its retry, 1000 ms ahead
C28_Witness ==
  /\ publishFailCount = 10
  /\ failed[1] = 10
  /\ timers = <<1000>>

(* ------------ the reconnect-timer revision (src/unnamed/part_001) ------ *)
\* An earlier revision of the client.  Its `connected` property has a setter
\* that clears the reconnect timer and, when the new value is false, arms it
\* again; the timer calls reconnect() every reconnectTimeout milliseconds.
\* connect() is an async function that awaits disconnect() first; `micro`
\* counts its continuations that are ready to run, and waiter[s] = "connect"
\* marks one that awaits the 'disconnect' event of the session s.  tick() is
\* the tick() of the current client.

\* the variables of the other revisions that this revision does not have
notTimer ==
  <<initialConnected, waitForInitialConnection, opened, by, promise, called,
    ret, lost, limit, emitted, publishFailCount, timers, pending>>

\* connect() calls that have not yet reached their nats.connect
PendingConnects ==
  micro + Cardinality({s \in Sessions : waiter[s] = "connect"})

\* the bound on sessions leaves room for one more connect() call
CanConnect == Created + PendingConnects < limit.sessions

\* set connected( newConnectedState ): clearInterval, then setInterval when
\* the new state is false
SetConnected(newConnectedState) ==
  /\ connected' = newConnectedState
  /\ reconnectTimer' = ~newConnectedState

\* the promise executor of disconnect(), run for `who` (the user's
\* disconnect() call, or a connect() call that awaits it); close() may throw
\* on a session that has not connected, which rejects the promise
disconnectTimer(who, throws) ==
  IF stan # 0 /\ connected
    THEN IF throws
           THEN /\ micro' = IF who = "connect" THEN micro + 1 ELSE micro
                /\ UNCHANGED <<waiter, sess, stan, connected, reconnectTimer>>
           ELSE /\ waiter' = [waiter EXCEPT ![stan] = who]
                /\ sess' = [sess EXCEPT ![stan] = "closed"]
                /\ SetConnected(FALSE)
                /\ stan' = 0
                /\ UNCHANGED micro
    ELSE /\ micro' = IF who = "connect" THEN micro + 1 ELSE micro
         /\ UNCHANGED <<waiter, sess, stan, connected, reconnectTimer>>

\* connect(), after its `await this.disconnect()`: the setter, nats.connect,
\* the three fields
connectTimer(sessNow, clusterId, clientId, options) ==
  LET s == Created + 1 IN
    /\ SetConnected(FALSE)
    /\ stan' = s
    /\ sess' = [sessNow EXCEPT ![s] = "connecting"]
    /\ stored' = [clusterId |-> clusterId, clientId |-> clientId,
                  clientOptions |-> options]

\* connect( clusterId, clientId, options ) called by the user, up to its await
TimerConnect ==
  /\ CanConnect
  /\ \E throws \in BOOLEAN :
       /\ MayThrow(throws)
       /\ disconnectTimer("connect", throws)
  /\ UNCHANGED <<buffer, ticking, stored, inflight, attempts, published,
                 overflowed, acked, failed, notTimer>>

\* reconnect() called by the user: connect() with the stored fields
TimerReconnect ==
  /\ stored.clusterId # None
  /\ CanConnect
  /\ \E throws \in BOOLEAN :
       /\ MayThrow(throws)
       /\ disconnectTimer("connect", throws)
  /\ UNCHANGED <<buffer, ticking, stored, inflight, attempts, published,
                 overflowed, acked, failed, notTimer>>

\* the reconnect timer fires: reconnect()
TimerFires ==
  /\ micro = 0
  /\ reconnectTimer
  /\ CanConnect
  /\ \E throws \in BOOLEAN :
       /\ MayThrow(throws)
       /\ disconnectTimer("connect", throws)
  /\ UNCHANGED <<buffer, ticking, stored, inflight, attempts, published,
                 overflowed, acked, failed, notTimer>>

\* a connect() call resumes after a disconnect() that settled within the call
TimerConnectResume ==
  /\ micro > 0
  /\ micro' = micro - 1
  /\ connectTimer(sess, DemoArgs.clusterId, DemoArgs.clientId,
                  DemoArgs.options)
  /\ UNCHANGED <<buffer, ticking, waiter, inflight, attempts, published,
                 overflowed, acked, failed, notTimer>>

\* disconnect() called by the user
TimerDisconnect ==
  /\ \E throws \in BOOLEAN :
       /\ MayThrow(throws)
       /\ disconnectTimer("disconnect", throws)
  /\ UNCHANGED <<buffer, ticking, stored, inflight, attempts, published,
                 overflowed, acked, failed, notTimer>>

\* publish( subject, data )
TimerPublish ==
  /\ published < limit.pub
  /\ LET p == CBufferPush(buffer, published + 1) IN
       /\ published' = published + 1
       /\ overflowed' = overflow(overflowed, p.dropped)
       /\ IF stan # 0 /\ ~ticking
            THEN RunTick(p.buffer, inflight)
            ELSE /\ buffer' = p.buffer
                 /\ UNCHANGED <<ticking, inflight, attempts>>
  /\ UNCHANGED <<stan, sess, waiter, micro, stored, acked, failed, connected,
                 reconnectTimer, notTimer>>

\* the 'connect' handler of session s
TimerOnConnect(s) ==
  /\ micro = 0
  /\ sess[s] = "connecting"
  /\ sess' = [sess EXCEPT ![s] = "connected"]
  /\ SetConnected(TRUE)
  /\ RunTick(buffer, inflight)
  /\ UNCHANGED <<stan, waiter, micro, stored, published, overflowed, acked,
                 failed, notTimer>>

\* the 'disconnect' event of a session that disconnect() closed: the promise
\* resolves, and a connect() call awaiting it resumes
TimerOnDisconnect(s) ==
  /\ micro = 0
  /\ sess[s] = "closed"
  /\ waiter[s] # None
  /\ waiter' = [waiter EXCEPT ![s] = None]
  /\ IF waiter[s] = "connect"
       THEN connectTimer(sess, DemoArgs.clusterId, DemoArgs.clientId,
                         DemoArgs.options)
       ELSE UNCHANGED <<stan, sess, stored, connected, reconnectTimer>>
  /\ UNCHANGED <<buffer, ticking, micro, inflight, attempts, published,
                 overflowed, acked, failed, notTimer>>

\* the callback of stan.publish for attempt a: an error puts the item back
\* and calls reconnect(); a success sets connected and runs tick()
TimerCallback(a, error) ==
  /\ micro = 0
  /\ a \in inflight
  /\ IF error
       THEN /\ Failures < limit.fail
            /\ CanConnect
            /\ LET u == CBufferUnshift(buffer, a.item) IN
                 /\ buffer' = u.buffer
                 /\ overflowed' = overflow(overflowed, u.dropped)
            /\ inflight' = inflight \ {a}
            /\ failed' = [failed EXCEPT ![a.item] = @ + 1]
            /\ \E throws \in BOOLEAN :
                 /\ MayThrow(throws)
                 /\ disconnectTimer("connect", throws)
            /\ UNCHANGED <<ticking, attempts, acked>>
       ELSE /\ acked' = acked \cup {a.item}
            /\ SetConnected(TRUE)
            /\ RunTick(buffer, inflight \ {a})
            /\ UNCHANGED <<stan, sess, waiter, micro, overflowed, failed>>
  /\ UNCHANGED <<stored, published, notTimer>>

NextTimer ==
  \/ TimerPublish
  \/ TimerConnect
  \/ TimerReconnect
  \/ TimerDisconnect
  \/ TimerFires
  \/ TimerConnectResume
  \/ \E s \in Sessions : TimerOnConnect(s)
  \/ \E s \in Sessions : TimerOnDisconnect(s)
  \/ \E a \in inflight : \E error \in BOOLEAN : TimerCallback(a, error)

InitTimer ==
  /\ InitWith([pub |-> TimerPub, sessions |-> TimerSessions,
               fail |-> MaxFail, lost |-> 0, args |-> {DemoArgs}])
  /\ waitForInitialConnection = FALSE

SpecTimer == InitTimer /\ [][NextTimer]_vars

\* C25: a disconnect() call leaves no reconnect timer armed.
C25_DisconnectClearsTimer ==
  [][TimerDisconnect => ~reconnectTimer']_vars

(* ------------- the retry-counter revision with a full buffer ----------- *)

\* the retry-counter revision, driven with more items than the buffer holds
InitRetryOverflow ==
  /\ InitWith([pub |-> OverflowPub, sessions |-> OverflowSessions,
               fail |-> MaxFail, lost |-> 0, args |-> {DemoArgs}])
  /\ waitForInitialConnection = FALSE

SpecRetryOverflow == InitRetryOverflow /\ [][NextRetry]_vars

\* item i has left the buffer without a stan.publish call for it and without
\* a report to the overflow hook
SilentlyRemoved(i) ==
  /\ i <= published
  /\ Occurrences(buffer, i) = 0
  /\ attempts[i] = 0
  /\ Occurrences(overflowed, i) = 0

\* C31: the shift() of a successful callback removes the item that was
\* published: no item leaves the buffer without having been handed to a
\* session or reported to the overflow hook.
C31_NoSilentRemoval == \A i \in Items : ~SilentlyRemoved(i)

(* ---------------------- no attempt after disconnect -------------------- *)

\* the stan.publish calls the step made
NewCalls == inflight' \ inflight

\* C32 as stated: after a disconnect() call, and until the next connect(),
\* no step makes a stan.publish call.  The state shows that such a call was
\* made and no connect() followed when the client holds no session, or when
\* the previous step was a disconnect() whose close() threw.
C32_NoAttemptAfterDisconnect ==
  [][stan = 0 \/ ret = CloseThrew => Issued = {}]_vars

\* what holds of it: while the client holds no session no step makes a
\* stan.publish call, and none is ever made on a session that was closed
C32_NoAttemptWithoutSession ==
  [][/\ stan = 0 => Issued = {} /\ NewCalls = {}
     /\ \A a \in NewCalls : sess'[a.session] # "closed"]_vars

(* --------------------------- one open session -------------------------- *)

\* the sessions nats.connect created that the client has not asked to close
\* (one lost before 'connect' is not counted)
OpenSessions == {s \in Sessions : sess[s] \in {"connecting", "connected"}}

\* C33: at most one session opened by the client is open at any time.
C33_OneOpenSession == Cardinality(OpenSessions) <= 1

(* ----------------------------- buffer order ---------------------------- *)

\* the current client, driven through two failed attempts
InitOrder ==
  InitWith([pub |-> OrderPub, sessions |-> MaxSessions, fail |-> OrderFail,
            lost |-> LifeLost, args |-> {DemoArgs}])

SpecOrder == InitOrder /\ [][Next]_vars

\* C34: the buffer holds its items in publish order: every buffered item was
\* published before every item behind it.
C34_PublishOrder ==
  \A k \in 1..Len(buffer) : \A m \in 1..Len(buffer) :
    k < m => buffer[k] < buffer[m]

(* ---------------------- the initial-connection flag -------------------- *)

\* the step delivers a 'connect' event
ConnectEvent ==
  \E s \in Sessions : sess[s] = "connecting" /\ sess'[s] = "connected"

====
